---- MODULE Spec2Model ----
(***************************************************************************)
(* The Curl ternary sponge of src/src/pow/curl.rs: the engine (round       *)
(* count, state and scratchpad buffers), Curl::new, the round transform     *)
(* and the Sponge operations absorb, squeeze and reset.                     *)
(*                                                                         *)
(* Two specifications share the variables:                                 *)
(*   Spec   one action per call of new, absorb, squeeze and reset; a       *)
(*          call is atomic and its effect is computed by the operators     *)
(*          Absorb, Squeeze, Transform below;                              *)
(*   SpecT  one call of transform, one action per step of its two loops    *)
(*          (lines 36-53), on the buffers an absorb hands to it.           *)
(*                                                                         *)
(* A Rust slice buf[0..n] is the sequence <<buf[1], ..., buf[n]>> here:     *)
(* the code's buf[i] is written buf[i + 1].                                *)
(***************************************************************************)
EXTENDS Integers, Sequences, FiniteSets, TLC

\* sponge::HASH_LENGTH (imported at curl.rs:1), the block length B.
HASH_LENGTH == 243

\* curl.rs:5
STATE_LENGTH == 3 * HASH_LENGTH

\* curl.rs:6
TRUTH_TABLE == <<1, 0, -1, 2, 1, -1, 0, 2, -1, 1, 0>>

\* The values a trit may take; the buffers are [i8; STATE_LENGTH].
Trit == {-1, 0, 1}

\* sponge::Mode: the two Curl variants and the Keccak-based construction
\* that Curl::new must reject.
Mode == {"CURLP27", "CURLP81", "Kerl"}

\* Bounds of the model.
MaxOps == 2

VARIABLES
  constructed,       \* an engine exists: Curl::new returned Ok
  error,             \* the Err of the last Curl::new, <<>> when there is none
  number_of_rounds,  \* Curl.number_of_rounds
  scratchpad,        \* Curl.scratchpad
  state,             \* Curl.state
  out,               \* the buffer handed to the last squeeze
  panicked,          \* a call has panicked
  requested,         \* the mode of the last Curl::new call, "none" before it
  history,           \* the calls made on the engine since its construction
  rounds0,           \* the round count the engine was constructed with
  pre_state,         \* Curl.state when the last call began
  pre_scratchpad,    \* Curl.scratchpad when the last call began
  transforms,        \* the number of transform calls the last call made
  pc,                \* position in transform: "idle", "round", "position", "done"
  round,             \* rounds of the running transform that are complete
  state_index,       \* transform's inner loop variable
  scratchpad_index,  \* transform's cursor
  entry_state,       \* Curl.state when the running transform began
  entry_scratchpad,  \* Curl.scratchpad when the running transform began
  round_state        \* Curl.state when the running round began

engine_vars == <<constructed, error, number_of_rounds, scratchpad, state, out, panicked>>
ghost_vars == <<requested, history, rounds0, pre_state, pre_scratchpad, transforms>>
loop_vars == <<pc, round, state_index, scratchpad_index, entry_state,
              entry_scratchpad, round_state>>
vars == <<engine_vars, ghost_vars, loop_vars>>

----------------------------------------------------------------------------
(* Buffers and inputs *)

\* [0; STATE_LENGTH] (lines 19, 20, 89)
Zeros == SubSeq([i \in 1..STATE_LENGTH |-> 0], 1, STATE_LENGTH)

\* The trit at index k (from 0) of input pattern p: pattern 0 is all zero,
\* the others are fixed mixed sequences whose blocks differ.
PatternTrit(p, k) == IF p = 0 THEN 0 ELSE (((k \div (6 + p)) + p * k) % 3) - 1

\* The first len trits of pattern p, as the slice handed to absorb.
Trits(p, len) == SubSeq([k \in 1..len |-> PatternTrit(p, k - 1)], 1, len)

\* The first and the second block of a slice.
FirstBlock(s) == SubSeq(s, 1, HASH_LENGTH)
SecondBlock(s) == SubSeq(s, HASH_LENGTH + 1, 2 * HASH_LENGTH)

\* vec![0; len], the buffer handed to squeeze (as in test_curl_works).
OutBuffer(len) == SubSeq([k \in 1..len |-> 0], 1, len)

----------------------------------------------------------------------------
(* transform, lines 36-53 *)

\* The cursor update with the wrap-around one short.
NextIndexShortWrap(j) == IF j < 365 THEN j + 364 ELSE j - 364

\* lines 42-46: the cursor update.
NextIndex(j) == IF j < 365 THEN j + 364 ELSE j - 365

\* The truth index with the second trit shifted by one bit, not two.
TruthIndexShiftOne(sp, prev, cur) == sp[prev + 1] + 2 * sp[cur + 1] + 5

\* lines 47-49: scratchpad[prev] + (scratchpad[cur] << 2) + 5.
TruthIndex(sp, prev, cur) == sp[prev + 1] + 4 * sp[cur + 1] + 5

\* utils::converter::array_copy(src, 0, dest, 0, len), called at line 39:
\* dest with its first len entries replaced by those of src.
ArrayCopy(src, dest, len) == SubSeq(src, 1, len) \o SubSeq(dest, len + 1, Len(dest))

RECURSIVE Cursors(_, _)
RECURSIVE CursorsAfter(_, _)
\* The n >= 1 values the cursor takes after j, in order: lines 42-46
\* executed n times (split in halves to keep the evaluation shallow).
Cursors(j, n) ==
  IF n = 1 THEN <<NextIndex(j)>>
  ELSE CursorsAfter(Cursors(j, n \div 2), n - (n \div 2))
CursorsAfter(a, n) == a \o Cursors(a[Len(a)], n)

\* The cursor before and after each of the STATE_LENGTH positions of a round
\* that begins with the cursor at j: path[i + 1] is prev_scratchpad_index and
\* path[i + 2] is scratchpad_index at state_index = i.
CursorPath(j) == <<j>> \o Cursors(j, STATE_LENGTH)

\* The loop state of transform between rounds: the engine's buffers, the
\* cursor (line 37 sets it once, before the round loop) and, to spare its
\* recomputation, the cursor path of the last round.
LoopState(st, sp, j, path) ==
  [state |-> st, scratchpad |-> sp, scratchpad_index |-> j, path |-> path]

\* lines 40-51: every position reads two entries of the scratchpad sp and
\* writes one entry of the state (the truth index of lines 47-49 is written
\* out).
Positions(sp, path) ==
  SubSeq([i \in 1..STATE_LENGTH |->
            TRUTH_TABLE[sp[path[i] + 1] + 4 * sp[path[i + 1] + 1] + 5 + 1]],
         1, STATE_LENGTH)

\* lines 40-51 on the loop state l, whose scratchpad holds the snapshot.
Rewrite(l) ==
  LoopState(Positions(l.scratchpad, l.path), l.scratchpad,
            l.path[STATE_LENGTH + 1], l.path)

\* One round, lines 39-51: line 39 copies the state into the scratchpad.
Round(l) ==
  Rewrite(LoopState(l.state, ArrayCopy(l.state, l.scratchpad, STATE_LENGTH),
                    l.scratchpad_index,
                    IF l.path[1] = l.scratchpad_index THEN l.path
                    ELSE CursorPath(l.scratchpad_index)))

RECURSIVE Rounds(_, _)
RECURSIVE Continue(_, _)
\* r more rounds of the loop of line 38. The rounds are evaluated in two
\* halves, the first half completely before the second begins.
Continue(l, r) == IF Len(l.state) = STATE_LENGTH THEN Rounds(l, r) ELSE l
Rounds(l, r) ==
  IF r = 0 THEN l
  ELSE IF r = 1 THEN Round(l)
  ELSE Continue(Rounds(l, r \div 2), r - (r \div 2))

\* The engine as a value: the three fields of struct Curl (lines 9-13).
Curl(n, sp, st) == [number_of_rounds |-> n, scratchpad |-> sp, state |-> st]

\* The engine with the buffers of loop state l.
EngineOf(l, n) == Curl(n, l.scratchpad, l.state)

\* Curl::transform on the engine e. A truth index outside 0..10 (a panic in
\* the code) stops TLC with an error; SpecT models that branch explicitly.
Transform(e) ==
  EngineOf(Rounds(LoopState(e.state, e.scratchpad, 0, CursorPath(0)),
                  e.number_of_rounds),
           e.number_of_rounds)

\* The chunk copied into a cleared state.
CloneIntoClearedState(st, chunk) == chunk \o SubSeq(Zeros, HASH_LENGTH + 1, STATE_LENGTH)

\* line 67: self.state[0..HASH_LENGTH].clone_from_slice(chunk), for a chunk
\* of HASH_LENGTH trits (any other length panics, see Absorb).
CloneIntoState(st, chunk) == chunk \o SubSeq(st, HASH_LENGTH + 1, STATE_LENGTH)

----------------------------------------------------------------------------
(* SpecT: one call of transform, step by step *)

\* The engine with nothing running on it.
Idle ==
  /\ constructed = TRUE /\ error = <<>> /\ panicked = FALSE
  /\ out = <<>> /\ history = <<>> /\ transforms = 0 /\ requested = "none"
  /\ pre_state = <<>> /\ pre_scratchpad = <<>>

\* The block the entries below absorb, and the one that follows it.
Block1 == FirstBlock(Trits(1, 2 * HASH_LENGTH))
Block2 == SecondBlock(Trits(1, 2 * HASH_LENGTH))

\* The engine of n rounds after absorb has transformed Block1.
Absorbed1(n) == Transform(Curl(n, Zeros, CloneIntoState(Zeros, Block1)))

\* The buffers transform is entered with: from squeeze on a new engine
\* (line 78); from the first chunk of absorb (line 68) on a new engine, and
\* on one that absorbed before and was reset (reset leaves the scratchpad as
\* the last round left it); from the second chunk of absorb.
Entries(n) ==
  { Curl(n, Zeros, Zeros),
    Curl(n, Zeros, CloneIntoState(Zeros, Block1)),
    Curl(n, Absorbed1(n).scratchpad, CloneIntoState(Zeros, Block1)),
    Curl(n, Absorbed1(n).scratchpad, CloneIntoState(Absorbed1(n).state, Block2)) }

InitT ==
  /\ Idle
  /\ \E e \in Entries(27) \cup Entries(81) :
       /\ number_of_rounds = e.number_of_rounds
       /\ rounds0 = e.number_of_rounds
       /\ state = e.state
       /\ scratchpad = e.scratchpad
       /\ entry_state = e.state
       /\ entry_scratchpad = e.scratchpad
       /\ round_state = e.state
  /\ pc = "round" /\ round = 0 /\ state_index = 0
  /\ scratchpad_index = 0                                        \* line 37

\* line 38, loop continues; line 39.
RoundStart ==
  /\ pc = "round" /\ round < number_of_rounds
  /\ scratchpad' = ArrayCopy(state, scratchpad, STATE_LENGTH)
  /\ round_state' = state
  /\ state_index' = 0
  /\ pc' = "position"
  /\ UNCHANGED <<constructed, error, number_of_rounds, state, out, panicked,
                 ghost_vars, round, scratchpad_index, entry_state,
                 entry_scratchpad>>

\* The position step reading the state being rewritten, not the snapshot.
PositionInPlace ==
  /\ pc = "position" /\ state_index < STATE_LENGTH
  /\ LET prev_scratchpad_index == scratchpad_index
         next_scratchpad_index == NextIndex(scratchpad_index)
         truth_index == TruthIndex(state, prev_scratchpad_index, next_scratchpad_index)
     IN /\ scratchpad_index' = next_scratchpad_index
        /\ IF truth_index \in 0..10
           THEN /\ state' = [state EXCEPT ![state_index + 1] = TRUTH_TABLE[truth_index + 1]]
                /\ state_index' = state_index + 1
                /\ UNCHANGED <<panicked, pc>>
           ELSE /\ panicked' = TRUE
                /\ pc' = "done"
                /\ UNCHANGED <<state, state_index>>
  /\ UNCHANGED <<constructed, error, number_of_rounds, scratchpad, out,
                 ghost_vars, round, entry_state, entry_scratchpad,
                 round_state>>

\* lines 41-50 at one state_index.
Position ==
  /\ pc = "position" /\ state_index < STATE_LENGTH
  /\ LET prev_scratchpad_index == scratchpad_index
         next_scratchpad_index == NextIndex(scratchpad_index)
         truth_index == TruthIndex(scratchpad, prev_scratchpad_index, next_scratchpad_index)
     IN /\ scratchpad_index' = next_scratchpad_index
        /\ IF truth_index \in 0..10
           THEN /\ state' = [state EXCEPT ![state_index + 1] = TRUTH_TABLE[truth_index + 1]]
                /\ state_index' = state_index + 1
                /\ UNCHANGED <<panicked, pc>>
           ELSE /\ panicked' = TRUE                 \* index out of bounds
                /\ pc' = "done"
                /\ UNCHANGED <<state, state_index>>
  /\ UNCHANGED <<constructed, error, number_of_rounds, scratchpad, out,
                 ghost_vars, round, entry_state, entry_scratchpad,
                 round_state>>

\* line 40, loop ends: the round is complete.
RoundEnd ==
  /\ pc = "position" /\ state_index = STATE_LENGTH
  /\ round' = round + 1
  /\ pc' = "round"
  /\ UNCHANGED <<engine_vars, ghost_vars, state_index, scratchpad_index,
                 entry_state, entry_scratchpad, round_state>>

\* line 38, loop ends: transform returns.
Return ==
  /\ pc = "round" /\ round = number_of_rounds
  /\ pc' = "done"
  /\ UNCHANGED <<engine_vars, ghost_vars, round, state_index, scratchpad_index,
                 entry_state, entry_scratchpad, round_state>>

NextT == RoundStart \/ Position \/ RoundEnd \/ Return

SpecT == InitT /\ [][NextT]_vars

----------------------------------------------------------------------------
(* Curl::new and the Sponge operations *)

\* lines 15-23
Default == Curl(81, Zeros, Zeros)

\* Curl::new with every other mode falling through to the default rounds.
CurlNewCoerce(mode) ==
  IF mode = "CURLP27"
  THEN [ok |-> TRUE, curl |-> [Default EXCEPT !.number_of_rounds = 27], error |-> <<>>]
  ELSE [ok |-> TRUE, curl |-> Default, error |-> <<>>]

\* lines 26-34: Curl::default() with the round count of the mode, as
\* Ok(curl), or Err("Invalid mode: <mode>") and the engine dropped.
CurlNew(mode) ==
  IF mode = "CURLP27"
  THEN [ok |-> TRUE, curl |-> [Default EXCEPT !.number_of_rounds = 27], error |-> <<>>]
  ELSE IF mode = "CURLP81"
  THEN [ok |-> TRUE, curl |-> [Default EXCEPT !.number_of_rounds = 81], error |-> <<>>]
  ELSE [ok |-> FALSE, curl |-> Curl(0, <<>>, <<>>), error |-> <<"Invalid mode", mode>>]

\* What a call leaves: the engine, whether the call panicked, the number of
\* transform calls it made and the output buffer.
Outcome(e, p, t, o) == [curl |-> e, panicked |-> p, transforms |-> t, out |-> o]

\* trits.chunks(HASH_LENGTH).next(): the first HASH_LENGTH trits, or all of
\* them when there are fewer.
FirstChunk(trits) ==
  SubSeq(trits, 1, IF Len(trits) < HASH_LENGTH THEN Len(trits) ELSE HASH_LENGTH)

RECURSIVE AbsorbChunks(_, _)
\* lines 66-69 on the trits not yet consumed. clone_from_slice panics when
\* the chunk is not HASH_LENGTH long.
AbsorbChunks(r, trits) ==
  IF r.panicked \/ Len(trits) = 0 THEN r
  ELSE IF Len(FirstChunk(trits)) # HASH_LENGTH
  THEN Outcome(r.curl, TRUE, r.transforms, r.out)
  ELSE AbsorbChunks(
         Outcome(Transform(Curl(r.curl.number_of_rounds, r.curl.scratchpad,
                                CloneIntoState(r.curl.state, FirstChunk(trits)))),
                 FALSE, r.transforms + 1, r.out),
         SubSeq(trits, HASH_LENGTH + 1, Len(trits)))

\* Sponge::absorb, lines 65-70.
Absorb(e, trits) == AbsorbChunks(Outcome(e, FALSE, 0, <<>>), trits)

RECURSIVE SqueezeChunksEcho(_, _)
\* The chunk loop without the transform of line 78.
SqueezeChunksEcho(r, filled) ==
  IF r.panicked \/ filled >= Len(r.out) THEN r
  ELSE IF Len(r.out) - filled < HASH_LENGTH
  THEN Outcome(r.curl, TRUE, r.transforms, r.out)
  ELSE SqueezeChunksEcho(
         Outcome(r.curl, FALSE, r.transforms + 1,
                 SubSeq(r.out, 1, filled) \o SubSeq(r.curl.state, 1, HASH_LENGTH)
                   \o SubSeq(r.out, filled + HASH_LENGTH + 1, Len(r.out))),
         filled + HASH_LENGTH)

RECURSIVE SqueezeChunks(_, _)
\* lines 76-79 with `filled` trits of out already written: the next chunk of
\* out.chunks_mut(HASH_LENGTH) is out[filled .. min(filled + HASH_LENGTH,
\* len)], and clone_from_slice panics when it is not HASH_LENGTH long.
SqueezeChunks(r, filled) ==
  IF r.panicked \/ filled >= Len(r.out) THEN r
  ELSE IF Len(r.out) - filled < HASH_LENGTH
  THEN Outcome(r.curl, TRUE, r.transforms, r.out)
  ELSE SqueezeChunks(
         Outcome(Transform(r.curl), FALSE, r.transforms + 1,
                 SubSeq(r.out, 1, filled) \o SubSeq(r.curl.state, 1, HASH_LENGTH)
                   \o SubSeq(r.out, filled + HASH_LENGTH + 1, Len(r.out))),
         filled + HASH_LENGTH)

\* line 81, with trit_length and hash_length of lines 73-74.
LastLength(trit_length) == trit_length - (trit_length \div HASH_LENGTH) * HASH_LENGTH

\* The tail with the transform of line 84 made unconditionally.
SqueezeTailAlways(r) ==
  IF r.panicked THEN r
  ELSE Outcome(Transform(r.curl), FALSE, r.transforms + 1,
               SubSeq(r.out, 1, Len(r.out) - LastLength(Len(r.out)))
                 \o SubSeq(r.curl.state, 1, LastLength(Len(r.out))))

\* lines 81-85, reached when the loop did not panic.
SqueezeTail(r) ==
  IF r.panicked THEN r
  ELSE Outcome(IF Len(r.out) % HASH_LENGTH # 0 THEN Transform(r.curl) ELSE r.curl,
               FALSE,
               IF Len(r.out) % HASH_LENGTH # 0 THEN r.transforms + 1 ELSE r.transforms,
               SubSeq(r.out, 1, Len(r.out) - LastLength(Len(r.out)))
                 \o SubSeq(r.curl.state, 1, LastLength(Len(r.out))))

\* Sponge::squeeze, lines 72-86, on the buffer o.
Squeeze(e, o) == SqueezeTail(SqueezeChunks(Outcome(e, FALSE, 0, o), 0))

\* reset written as *self = Curl::default().
ResetToDefault(e) == Default

\* Sponge::reset, lines 88-90.
Reset(e) == Curl(e.number_of_rounds, e.scratchpad, Zeros)

----------------------------------------------------------------------------
(* Spec: a session of calls *)

\* The inputs of absorb, <<pattern, length>>: one block, two blocks, and a
\* length that is no multiple of the block length.
AbsorbInputs == {<<1, HASH_LENGTH>>, <<1, 2 * HASH_LENGTH>>, <<1, 100>>}

\* The lengths of the buffer handed to squeeze.
SqueezeCounts == {0, HASH_LENGTH, 2 * HASH_LENGTH, 100}

Call(op, pattern, len) == [op |-> op, pattern |-> pattern, len |-> len]

TheEngine == Curl(number_of_rounds, scratchpad, state)

Init ==
  /\ constructed = FALSE /\ error = <<>> /\ panicked = FALSE
  /\ number_of_rounds = 0 /\ scratchpad = <<>> /\ state = <<>>
  /\ out = <<>> /\ history = <<>> /\ transforms = 0 /\ requested = "none"
  /\ rounds0 = 0 /\ pre_state = <<>> /\ pre_scratchpad = <<>>
  /\ pc = "idle" /\ round = 0 /\ state_index = 0 /\ scratchpad_index = 0
  /\ entry_state = <<>> /\ entry_scratchpad = <<>> /\ round_state = <<>>

\* let curl = Curl::new(mode)
New(mode) ==
  /\ ~constructed
  /\ requested' = mode
  /\ \E r \in {CurlNew(mode)} :
       IF r.ok
       THEN /\ constructed' = TRUE
            /\ error' = <<>>
            /\ number_of_rounds' = r.curl.number_of_rounds
            /\ scratchpad' = r.curl.scratchpad
            /\ state' = r.curl.state
            /\ rounds0' = r.curl.number_of_rounds
       ELSE /\ error' = r.error
            /\ UNCHANGED <<constructed, number_of_rounds, scratchpad, state, rounds0>>
  /\ UNCHANGED <<out, panicked, history, pre_state, pre_scratchpad, transforms, loop_vars>>

CanCall == constructed /\ ~panicked /\ Len(history) < MaxOps

\* What every call records.
Called(c) ==
  /\ history' = Append(history, c)
  /\ pre_state' = state
  /\ pre_scratchpad' = scratchpad
  /\ UNCHANGED <<constructed, error, requested, rounds0, loop_vars>>

\* curl.absorb(&mut trits)
DoAbsorb(in) ==
  /\ CanCall
  /\ \E r \in {Absorb(TheEngine, Trits(in[1], in[2]))} :
       /\ number_of_rounds' = r.curl.number_of_rounds
       /\ scratchpad' = r.curl.scratchpad
       /\ state' = r.curl.state
       /\ panicked' = r.panicked
       /\ transforms' = r.transforms
  /\ UNCHANGED out
  /\ Called(Call("absorb", in[1], in[2]))

\* curl.squeeze(&mut out) with out = vec![0; count]
DoSqueeze(count) ==
  /\ CanCall
  /\ \E r \in {Squeeze(TheEngine, OutBuffer(count))} :
       /\ number_of_rounds' = r.curl.number_of_rounds
       /\ scratchpad' = r.curl.scratchpad
       /\ state' = r.curl.state
       /\ panicked' = r.panicked
       /\ transforms' = r.transforms
       /\ out' = r.out
  /\ Called(Call("squeeze", 0, count))

\* curl.reset()
DoReset ==
  /\ CanCall
  /\ \E e \in {Reset(TheEngine)} :
       /\ number_of_rounds' = e.number_of_rounds
       /\ scratchpad' = e.scratchpad
       /\ state' = e.state
  /\ transforms' = 0
  /\ UNCHANGED <<out, panicked>>
  /\ Called(Call("reset", 0, 0))

Next ==
  \/ \E mode \in Mode : New(mode)
  \/ \E in \in AbsorbInputs : DoAbsorb(in)
  \/ \E count \in SqueezeCounts : DoSqueeze(count)
  \/ DoReset

Spec == Init /\ [][Next]_vars

----------------------------------------------------------------------------
(* The transform as the specification words it, for the properties below:  *)
(* every round starts its cursor at 0 and steps it by 364 modulo           *)
(* STATE_LENGTH, and reads only the state the round began with.            *)

\* The cursor before position i of a round (i from 0), for i = 0..STATE_LENGTH.
RefPath == SubSeq([i \in 1..(STATE_LENGTH + 1) |-> (364 * (i - 1)) % STATE_LENGTH],
                  1, STATE_LENGTH + 1)

\* The new state[i] of a round that began with the state st.
RefNew(st, i) == TRUTH_TABLE[st[RefPath[i + 1] + 1] + 4 * st[RefPath[i + 2] + 1] + 5 + 1]

RefRound(st) ==
  SubSeq([i \in 1..STATE_LENGTH |->
            TRUTH_TABLE[st[RefPath[i] + 1] + 4 * st[RefPath[i + 1] + 1] + 5 + 1]],
         1, STATE_LENGTH)

RECURSIVE RefRounds(_, _)
RECURSIVE RefContinue(_, _)
RefContinue(st, r) == IF Len(st) = STATE_LENGTH THEN RefRounds(st, r) ELSE st
RefRounds(st, r) ==
  IF r = 0 THEN st
  ELSE IF r = 1 THEN RefRound(st)
  ELSE RefContinue(RefRounds(st, r \div 2), r - (r \div 2))

\* The state after one transform of n rounds.
RefTransform(st, n) == RefRounds(st, n)

\* st with its first HASH_LENGTH entries replaced by the block.
RefOverwrite(st, block) ==
  SubSeq([i \in 1..STATE_LENGTH |-> IF i <= HASH_LENGTH THEN block[i] ELSE st[i]],
         1, STATE_LENGTH)

RECURSIVE RefAbsorb(_, _, _)
\* The state after absorbing whole blocks: overwrite, transform, per block.
RefAbsorb(st, n, trits) ==
  IF Len(trits) = 0 THEN st
  ELSE RefAbsorb(RefTransform(RefOverwrite(st, SubSeq(trits, 1, HASH_LENGTH)), n), n,
                 SubSeq(trits, HASH_LENGTH + 1, Len(trits)))

RECURSIVE RefSqueeze(_, _, _, _)
\* What a squeeze of count more trits is to give from the state st, with the
\* trits o delivered so far: whole blocks, each a copy of state[0..B] taken
\* before the transform that follows it, then the prefix state[0..count mod B].
RefSqueeze(st, n, count, o) ==
  IF count = 0 THEN [out |-> o, state |-> st]
  ELSE IF count < HASH_LENGTH THEN [out |-> o \o SubSeq(st, 1, count), state |-> st]
  ELSE RefSqueeze(RefTransform(st, n), n, count - HASH_LENGTH, o \o SubSeq(st, 1, HASH_LENGTH))

----------------------------------------------------------------------------
(* Properties of Spec *)

Last == history[Len(history)]

\* The last call was op and it returned.
After(op) == history # <<>> /\ Last.op = op /\ ~panicked

\* The engine the last call began with.
PreEngine == Curl(number_of_rounds, pre_scratchpad, pre_state)

\* A freshly constructed engine of the mode this one was constructed with.
Fresh == CurlNew(requested).curl

\* C1: once an engine is constructed, every call of absorb, squeeze and
\* reset completes without a panic, whatever the length of the input or of
\* the output buffer.
C1_Infallible == ~panicked

\* C2: squeeze fills exactly count trits of output, whole blocks from
\* state[0..B] before each transform and a final partial slice from the
\* prefix state[0..count mod B], for every count.
C2_SqueezeFills ==
  (history # <<>> /\ Last.op = "squeeze")
    => /\ ~panicked
       /\ out = RefSqueeze(pre_state, number_of_rounds, Last.len, <<>>).out

\* C3 as claimed: squeezing 2*B trits never yields the first block twice.
C3_SecondBlockDiffers ==
  (After("squeeze") /\ Last.len = 2 * HASH_LENGTH) => SecondBlock(out) # FirstBlock(out)

\* C3 as amended: squeezing 2*B trits yields state[0..B] as it was at entry,
\* followed by the first B trits of the state after one transform; on the
\* all-zero state of a new or reset engine, which the transform maps to
\* itself, these are the same block.
C3_SecondBlockRetransformed ==
  (After("squeeze") /\ Last.len = 2 * HASH_LENGTH)
    => /\ FirstBlock(out) = FirstBlock(pre_state)
       /\ SecondBlock(out) = FirstBlock(RefTransform(pre_state, number_of_rounds))
       /\ pre_state = Zeros => SecondBlock(out) = FirstBlock(out)

C3_Witness ==
  /\ After("squeeze") /\ Last.len = 2 * HASH_LENGTH
  /\ pre_state # Zeros
  /\ SecondBlock(out) # FirstBlock(out)

\* C4: reset leaves a state buffer of zeros and the round count of
\* construction, as in a fresh engine of the same mode, and a call that
\* follows leaves this engine and a fresh one equal in every field, so that
\* all later calls give the same outputs.
C4_ResetEquivalence ==
  After("reset")
    => /\ state = Zeros
       /\ number_of_rounds = rounds0
       /\ state = Fresh.state /\ number_of_rounds = Fresh.number_of_rounds
       /\ Absorb(TheEngine, Trits(1, HASH_LENGTH)) = Absorb(Fresh, Trits(1, HASH_LENGTH))

C4_Witness ==
  /\ After("reset")
  /\ pre_state # Zeros
  /\ scratchpad # Zeros

\* C5: absorbing whole blocks overwrites state[0..B] with each block, leaves
\* state[B..S] as it was and transforms once per block; absorbing two blocks
\* in one call leaves the engine as absorbing them in two calls does.
C5_AbsorbChunks ==
  (After("absorb") /\ Last.len % HASH_LENGTH = 0)
    => /\ transforms = Last.len \div HASH_LENGTH
       /\ state = RefAbsorb(pre_state, number_of_rounds, Trits(Last.pattern, Last.len))
       /\ Last.len = 2 * HASH_LENGTH
            => Absorb(Absorb(PreEngine, FirstBlock(Trits(Last.pattern, Last.len))).curl,
                      SecondBlock(Trits(Last.pattern, Last.len))).curl = TheEngine

C5_Witness ==
  /\ After("absorb") /\ Last.len = 2 * HASH_LENGTH
  /\ pre_state # Zeros

\* C6: Curl::new gives 27 rounds for CURLP27 and 81 for CURLP81, with zero
\* buffers, and for any other mode an error naming it and no engine.
C6_NewRejects ==
  /\ (requested \in {"CURLP27", "CURLP81"})
       => /\ constructed /\ error = <<>>
          /\ rounds0 = (IF requested = "CURLP27" THEN 27 ELSE 81)
          /\ number_of_rounds = rounds0
          /\ history = <<>> => (state = Zeros /\ scratchpad = Zeros)
  /\ (requested \in Mode \ {"CURLP27", "CURLP81"})
       => /\ ~constructed
          /\ error = <<"Invalid mode", requested>>
          /\ number_of_rounds = 0 /\ state = <<>> /\ scratchpad = <<>>

C6_Witness == requested = "Kerl" /\ ~constructed /\ error # <<>>

\* C9: a squeeze of k*B trits transforms exactly k times, once after each
\* block and not again; two squeezes of B trits give the output and the
\* engine of one squeeze of 2*B; a squeeze of B trits returns state[0..B] as
\* the call before left it.
C9_SqueezeMultiples ==
  (After("squeeze") /\ Last.len % HASH_LENGTH = 0)
    => /\ transforms = Last.len \div HASH_LENGTH
       /\ [out |-> out, state |-> state]
            = RefSqueeze(pre_state, number_of_rounds, Last.len, <<>>)
       /\ Last.len = 0 => (state = pre_state /\ scratchpad = pre_scratchpad)
       /\ Last.len = HASH_LENGTH => out = FirstBlock(pre_state)
       /\ Last.len = 2 * HASH_LENGTH
            => \A r1 \in {Squeeze(PreEngine, OutBuffer(HASH_LENGTH))} :
                 \A r2 \in {Squeeze(r1.curl, OutBuffer(HASH_LENGTH))} :
                   /\ r1.out \o r2.out = out
                   /\ r2.curl = TheEngine

C9_Witness ==
  /\ After("squeeze") /\ Last.len = 2 * HASH_LENGTH
  /\ Len(history) >= 2 /\ history[Len(history) - 1].op = "absorb"
  /\ state # pre_state

----------------------------------------------------------------------------
(* Properties of SpecT *)

\* C7: with trits absorbed, every entry of the state and of the scratchpad
\* is a trit after every step of transform, and the truth index of the
\* position about to be rewritten is in 0..10 and is neither 3 nor 7.
C7_TritDomain ==
  /\ ~panicked
  /\ \A i \in 1..STATE_LENGTH : state[i] \in Trit /\ scratchpad[i] \in Trit
  /\ (pc = "position" /\ state_index < STATE_LENGTH)
       => \A t \in {TruthIndex(scratchpad, scratchpad_index, NextIndex(scratchpad_index))} :
            t \in 0..10 /\ t \notin {3, 7}

\* A whole round has rewritten the state and the next one is under way.
C7_Witness ==
  /\ pc = "position" /\ round = 1 /\ state_index = 1
  /\ round_state # entry_state
  /\ TruthIndex(scratchpad, scratchpad_index, NextIndex(scratchpad_index)) \in 0..10

\* The 729 cursor values of a round are pairwise distinct.
CursorVisitsAll ==
  Cardinality({RefPath[i] : i \in 1..STATE_LENGTH}) = STATE_LENGTH

\* C8: the cursor update is j = (j + 364) mod 729 and keeps j in 0..728; in
\* every round the cursor before position i is (364 * i) mod 729, it takes
\* every value once in a round and is back at 0 when the round ends.
C8_CursorRule ==
  /\ scratchpad_index \in 0..(STATE_LENGTH - 1)
  /\ NextIndex(scratchpad_index) = (scratchpad_index + 364) % STATE_LENGTH
  /\ pc = "position" => scratchpad_index = RefPath[state_index + 1]
  /\ pc \in {"round", "done"} => scratchpad_index = 0
  /\ CursorVisitsAll

C8_Witness ==
  /\ pc = "position" /\ round = 1 /\ state_index = 2
  /\ scratchpad_index = 728

\* C10: in every round each new state[i] is computed from the state the
\* round began with, and what transform returns depends on the state and the
\* round count at entry only, not on the scratchpad at entry.
C10_SnapshotThenRewrite ==
  /\ pc = "position" => scratchpad = round_state
  /\ (pc = "position" /\ state_index > 0)
       => state[state_index] = RefNew(round_state, state_index - 1)
  /\ (pc = "position" /\ state_index = STATE_LENGTH) => state = RefRound(round_state)
  /\ pc = "done" => state = RefTransform(entry_state, number_of_rounds)

\* A round has rewritten every position from its snapshot, which replaced
\* the scratchpad an earlier call had left.
C10_Witness ==
  /\ pc = "position" /\ round = 0 /\ state_index = STATE_LENGTH
  /\ entry_scratchpad # Zeros /\ scratchpad # entry_scratchpad
  /\ state # round_state

\* The operator Transform, which Spec uses, returns what the loop leaves.
TransformAgrees ==
  pc = "done"
    => Curl(number_of_rounds, scratchpad, state)
         = Transform(Curl(number_of_rounds, entry_scratchpad, entry_state))

====
